---- MODULE Spec2Model ----
(***************************************************************************)
(* Model of the thread-insight relay: the paginated fetch                  *)
(* (get_thread_insights.get_ontology_object), the recency filter           *)
(* (get_thread_insights.get_recent_data), the message formatter, the       *)
(* notifier and the poll loop (slack_bot.SlackBot, slack_bot.run_daily_bot)*)
(*                                                                         *)
(* Time is counted in hours.  A timestamp value is a record [k, t]: k is   *)
(* "aware" (an ISO-8601 text with a UTC designator), "naive" (an ISO-8601  *)
(* text without one), "bad" (a text that is not ISO-8601), "absent" (the   *)
(* record has no such key) or "nan" (the table's filler for a missing      *)
(* cell); t is the instant.  A text value is a record [k, s]: k is "str",  *)
(* "absent" or "nan", s the sequence of character codes.                   *)
(***************************************************************************)
EXTENDS Integers, Sequences, FiniteSets, TLC

VARIABLES
    \* get_ontology_object
    all_data,       \* the accumulator
    page_token,     \* the continuation token of the next request (0: None)
    requests,       \* history: the pageToken parameter of every request sent (0: omitted)
    served,         \* history: every response received
    fstate,         \* "idle" | "loop" | "returned" | "raised"
    \* SlackBot.get_and_post_recent_insights and run_daily_bot
    pc,             \* position of the poll loop
    insights,       \* the value get_ontology_object returned to the cycle
    df,             \* the table create_attribute_table built
    recent_insights,\* the rows get_recent_data kept
    idx,            \* position of the per-record loop in recent_insights
    log,            \* history: the posts and sleeps of the current cycle, in order
    cycles,         \* number of cycles started
    \* a call of a pure function and its result
    call,
    ret

vars == <<all_data, page_token, requests, served, fstate,
          pc, insights, df, recent_insights, idx, log, cycles, call, ret>>

fetchVars == <<all_data, page_token, requests, served, fstate>>
cycleVars == <<pc, insights, df, recent_insights, idx, log, cycles>>
callVars  == <<call, ret>>

----------------------------------------------------------------------------
(* Bounds of the model *)

MaxPages == 3       \* page requests of one fetch
MaxPageLen == 2     \* records of one page
NumTokens == 2      \* distinct continuation tokens the server hands out
MaxTime == 1        \* instants are 0..MaxTime
MaxRows == 2        \* records of one cycle
MaxTableRows == 3   \* rows of a filtered table
MaxCyclePages == 2  \* page requests of one cycle's fetch
MaxCycles == 2      \* cycles of the poll loop
MaxTitleLen == 152  \* characters of a title
NumAlphabets == 2   \* distinct title texts of each length
MaxTop == 2         \* entries of a nested record's top level
NumVals == 1        \* distinct scalar values of a nested record

(* Program constants *)

TitleLimit == 150
TitleKeep == 147
Dot == 46
hours == 24
interval_hours == 24
RetrySeconds == 300
PostDelay == 1
SecondsPerHour == 3600

----------------------------------------------------------------------------
(* Values *)

Last(s) == s[Len(s)]

SeqsUpTo(S, n) == UNION {[1..k -> S] : k \in 0..n}

NoText == [k |-> "absent", s |-> <<>>]
NanText == [k |-> "nan", s |-> <<>>]
Str(s) == [k |-> "str", s |-> s]

NoTs == [k |-> "absent", t |-> 0]
NanTs == [k |-> "nan", t |-> 0]
BadTs == [k |-> "bad", t |-> 0]
Aware(t) == [k |-> "aware", t |-> t]
Naive(t) == [k |-> "naive", t |-> t]

TsValues ==
    {Aware(t) : t \in 0..MaxTime} \cup {Naive(t) : t \in 0..MaxTime} \cup {BadTs, NoTs}

\* A record as the source API serves it, without its primary key.
Body(ts, title) == [timestamp |-> ts, deIdentifiedInsightSummary |-> title]

WithId(b, n) ==
    [internalInsightId |-> n, timestamp |-> b.timestamp,
     deIdentifiedInsightSummary |-> b.deIdentifiedInsightSummary]

NoTable == [cols |-> {}, rows |-> <<>>]
NoCall == [f |-> "none"]
NoRet == [ok |-> TRUE, rows |-> <<>>, text |-> <<>>]

PlainBodies == {Body(Aware(0), Str(<<1>>))}

----------------------------------------------------------------------------
(* get_ontology_object *)

\* The responses of the source API to one page request.  data is a list
\* ("list"), a single object ("item") or is not in the body ("nodata");
\* next is the nextPageToken (0: none, or empty).
OkResponses(Bodies, room) ==
    {[kind |-> "ok", form |-> "list", data |-> d, next |-> n] :
        d \in {p \in SeqsUpTo(Bodies, MaxPageLen) : Len(p) <= room}, n \in 0..NumTokens}
    \cup
    {[kind |-> "ok", form |-> f, data |-> <<>>, next |-> n] :
        f \in {"nodata"}, n \in 0..NumTokens}
    \cup
    {[kind |-> "ok", form |-> "item", data |-> <<b>>, next |-> n] :
        b \in {x \in Bodies : room >= 1}, n \in 0..NumTokens}

ErrorResponses ==
    {[kind |-> k, form |-> "nodata", data |-> <<>>, next |-> 0] :
        k \in {"http_error", "net_error"}}

\* The primary keys are the server's: each record it serves has a fresh one.
Numbered(data, base) == [i \in 1..Len(data) |-> WithId(data[i], base + i)]

\* Lines 104-111 and 131-132: a non-success status raises Exception, a
\* RequestException is re-raised as Exception; neither is caught in the loop.
FetchFailedHttpOnly(resp) == resp.kind = "net_error"
FetchFailed(resp) == resp.kind # "ok"

\* Lines 117-122: a list extends the accumulator, a single object is appended.
ExtendFront(all, resp) == resp.data \o all
Extend(all, resp) ==
    IF resp.form = "nodata" THEN all ELSE all \o resp.data

\* Lines 96-97: the pageToken parameter is sent only when page_token is truthy.
TokenParam(tok) == tok

\* One iteration of the while loop: one request and what follows from its response.
FetchPage(Bodies, room, pages) ==
    /\ fstate = "loop"
    /\ Len(requests) < pages
    /\ \E r \in OkResponses(Bodies, room - Len(all_data)) \cup ErrorResponses :
         LET resp == [r EXCEPT !.data = Numbered(r.data, Len(all_data))]
         IN  /\ requests' = Append(requests, TokenParam(page_token))
             /\ served' = Append(served, resp)
             /\ IF FetchFailed(resp)
                  THEN /\ fstate' = "raised"
                       /\ UNCHANGED <<all_data, page_token, insights>>
                  ELSE /\ all_data' = Extend(all_data, resp)
                       /\ page_token' = resp.next
                       /\ IF resp.next = 0
                            THEN fstate' = "returned" /\ insights' = all_data'
                            ELSE fstate' = "loop" /\ UNCHANGED insights
    /\ UNCHANGED <<pc, df, recent_insights, idx, log, cycles, call, ret>>

----------------------------------------------------------------------------
(* create_attribute_table *)

Columns == {"internalInsightId", "timestamp", "deIdentifiedInsightSummary"}

\* A cell of a column the table has: the record's value, or the filler.
Cell(v) == IF v.k = "absent" THEN [v EXCEPT !.k = "nan"] ELSE v

\* Lines 282-293: no table for no data; else one row per record, the columns
\* being the keys some record has, a record's missing cells filled.
create_attribute_table(data) ==
    IF data = <<>> THEN NoTable
    ELSE LET cols == {"internalInsightId"}
                     \cup {c \in {"timestamp", "deIdentifiedInsightSummary"} :
                             \E i \in 1..Len(data) : data[i][c].k # "absent"}
         IN  [cols |-> cols,
              rows |-> [i \in 1..Len(data) |->
                          [c \in Columns |->
                              IF c = "internalInsightId" THEN data[i][c]
                              ELSE IF c \in cols THEN Cell(data[i][c])
                              ELSE data[i][c]]]]

----------------------------------------------------------------------------
(* get_recent_data *)

ValueError == [ok |-> FALSE, rows |-> <<>>, text |-> <<>>]

\* pd.to_datetime(..., format='ISO8601') of one text.
Parses(v) == v.k \in {"aware", "naive"}

ColumnCells(d, col) == {d.rows[i][col] : i \in 1..Len(d.rows)}

\* pd.to_datetime of the column (line 329): every text must parse, and texts
\* with and without a UTC offset do not mix; a filler becomes NaT.
ColumnParsesSkippingBad(d, col) ==
    ~ (\E v, w \in ColumnCells(d, col) : v.k = "aware" /\ w.k = "naive")
ColumnParses(d, col) ==
    /\ \A v \in ColumnCells(d, col) : Parses(v) \/ v.k = "nan"
    /\ ~ (\E v, w \in ColumnCells(d, col) : v.k = "aware" /\ w.k = "naive")

ColumnAware(d, col) == \E v \in ColumnCells(d, col) : v.k = "aware"

\* Line 332: the column is compared with the cutoff; an offset-aware column and
\* a naive cutoff (or the reverse) are not comparable and the comparison raises.
Comparable(d, col, cutoff) == ColumnAware(d, col) <=> (cutoff.k = "aware")

\* Line 332: a row is kept when its instant is at or after the cutoff; NaT
\* compares false.
RecentStrict(v, cutoff) == v.k # "nan" /\ v.t > cutoff.t
Recent(v, cutoff) == v.k # "nan" /\ v.t >= cutoff.t

KeepRows(rows, col, cutoff) ==
    LET F[i \in 0..Len(rows)] ==
            IF i = 0 THEN <<>>
            ELSE IF Recent(rows[i][col], cutoff) THEN Append(F[i-1], rows[i])
            ELSE F[i-1]
    IN  F[Len(rows)]

get_recent_data(d, timestamp_col, last_updated_at) ==
    IF timestamp_col \notin d.cols THEN ValueError
    ELSE IF ~ Parses(last_updated_at) THEN ValueError
    ELSE IF ~ ColumnParses(d, timestamp_col) THEN ValueError
    ELSE IF ~ Comparable(d, timestamp_col, last_updated_at) THEN ValueError
    ELSE [ok |-> TRUE, rows |-> KeepRows(d.rows, timestamp_col, last_updated_at),
          text |-> <<>>]

----------------------------------------------------------------------------
(* SlackBot.format_insight_message *)

UntitledInsight == Str(<<85, 110, 116, 105, 116, 108, 101, 100, 32, 73, 110, 115, 105, 103, 104, 116>>)
NoSummary == Str(<<78, 111, 32, 100, 101, 45, 105, 100, 101, 110, 116, 105, 102, 105, 101, 100, 32, 115, 117, 109, 109, 97, 114, 121, 32, 97, 118, 97, 105, 108, 97, 98, 108, 101>>)

\* dict.get(key, default): the default only when the row has no such key.
Get(insight, key, default) ==
    IF insight[key].k = "absent" THEN default ELSE insight[key]

Ellipsis == <<Dot, Dot, Dot>>

\* Lines 87-88.
TruncateWhole(s) ==
    IF Len(s) > TitleLimit THEN SubSeq(s, 1, TitleLimit) \o Ellipsis ELSE s
Truncate(s) ==
    IF Len(s) > TitleLimit THEN SubSeq(s, 1, TitleKeep) \o Ellipsis ELSE s

TypeError == [ok |-> FALSE, rows |-> <<>>, text |-> <<>>]

\* Lines 79-107: the header and the summary section (the evidence and metadata
\* sections render fields these records do not carry).  len() of a filler
\* (a float) raises TypeError.  rows holds the blocks, text the header's text.
format_insight_message(insight) ==
    LET title == Get(insight, "deIdentifiedInsightSummary", UntitledInsight)
        deidentified_summary == Get(insight, "deIdentifiedInsightSummary", NoSummary)
    IN  IF title.k # "str" THEN TypeError
        ELSE [ok |-> TRUE,
              rows |-> << [type |-> "header", text |-> Truncate(title.s)],
                          [type |-> "section", text |-> deidentified_summary.s] >>,
              text |-> Truncate(title.s)]

----------------------------------------------------------------------------
(* SlackBot.post_message *)

\* What the channel API does with one post: "ok" (ok: true), "not_ok" (the
\* envelope's ok is false), "net_error" (the request itself cannot complete,
\* or raise_for_status refuses the status: a RequestException).
PostOutcomes == {"ok", "not_ok", "net_error"}

\* Lines 61-63: every RequestException is caught, printed and answered False.
PostRaisesTransport(outcome) == outcome = "net_error"
PostRaises(outcome) == FALSE

post_message(outcome) ==
    [raised |-> PostRaises(outcome), value |-> outcome = "ok"]

Post(kind, id, outcome) ==
    [ev |-> "post", kind |-> kind, id |-> id, outcome |-> outcome,
     raised |-> post_message(outcome).raised,
     value |-> post_message(outcome).value /\ ~ post_message(outcome).raised,
     secs |-> 0]

Sleep(secs) ==
    [ev |-> "sleep", kind |-> "sleep", id |-> 0, outcome |-> "ok",
     raised |-> FALSE, value |-> TRUE, secs |-> secs]


----------------------------------------------------------------------------
(* SlackBot.get_and_post_recent_insights *)

\* The records a cycle's fetch may serve: old and new ones, one without a
\* summary, one whose timestamp has no UTC designator, one whose timestamp
\* does not parse and one without a timestamp.
CycleBodies ==
    {Body(Aware(0), Str(<<1>>)), Body(Aware(MaxTime), Str(<<1>>)),
     Body(Aware(MaxTime), NoText), Body(Naive(MaxTime), Str(<<1>>)),
     Body(BadTs, Str(<<1>>)), Body(NoTs, Str(<<1>>))}

\* datetime.utcnow() of a cycle, and line 168: the cutoff always carries "Z".
Nows == hours..(hours + MaxTime)
last_day(now) == Aware(now - hours)

\* Line 160: "if not insights".
NeverEmpty(ins) == FALSE
NoInsights(ins) == ins = <<>>

\* A post inside the try block: the event, and where an exception it raised goes.
AfterTryPost(e, next) == IF e.raised THEN "except" ELSE next

\* get_ontology_object has returned or raised: its locals are gone, what it
\* returned (insights) and how it ended (fstate) stay with the cycle.
FetchLeft ==
    /\ all_data' = <<>>
    /\ page_token' = 0
    /\ requests' = <<>>
    /\ served' = <<>>
    /\ UNCHANGED fstate

\* run_daily_bot line 223 calls the cycle; the cycle starts its fetch.
CycleStart ==
    /\ pc = "loop_top"
    /\ cycles < MaxCycles
    /\ pc' = "fetch"
    /\ cycles' = cycles + 1
    /\ all_data' = <<>>
    /\ page_token' = 0
    /\ requests' = <<>>
    /\ served' = <<>>
    /\ fstate' = "loop"
    /\ insights' = <<>>
    /\ df' = NoTable
    /\ recent_insights' = <<>>
    /\ idx' = 0
    /\ log' = <<>>
    /\ UNCHANGED callVars

\* Lines 152-158: the fetch is called inside the try block.
CycleFetchPage == pc = "fetch" /\ FetchPage(CycleBodies, MaxRows, MaxCyclePages)

\* An exception of get_ontology_object reaches the except clause of line 194.
FetchRaises ==
    /\ pc = "fetch"
    /\ fstate = "raised"
    /\ pc' = "except"
    /\ FetchLeft
    /\ UNCHANGED <<insights, df, recent_insights, idx, log, cycles, callVars>>

\* Lines 160-162.
EmptyFetch ==
    /\ pc = "fetch"
    /\ fstate = "returned"
    /\ NoInsights(insights)
    /\ \E o \in PostOutcomes :
         LET e == Post("none", 0, o)
         IN  /\ log' = Append(log, e)
             /\ pc' = AfterTryPost(e, "done")
    /\ FetchLeft
    /\ UNCHANGED <<insights, df, recent_insights, idx, cycles, callVars>>

\* Lines 165-171, when get_recent_data raises.
FilterRaises ==
    /\ pc = "fetch"
    /\ fstate = "returned"
    /\ ~ NoInsights(insights)
    /\ \E now \in Nows :
         /\ df' = create_attribute_table(insights)
         /\ ~ get_recent_data(df', "timestamp", last_day(now)).ok
    /\ pc' = "except"
    /\ FetchLeft
    /\ UNCHANGED <<insights, recent_insights, idx, log, cycles, callVars>>

\* Lines 165-175, when no row is recent.
NoRecent ==
    /\ pc = "fetch"
    /\ fstate = "returned"
    /\ ~ NoInsights(insights)
    /\ \E now \in Nows, o \in PostOutcomes :
         LET r == get_recent_data(create_attribute_table(insights), "timestamp", last_day(now))
             e == Post("none", 0, o)
         IN  /\ r.ok
             /\ r.rows = <<>>
             /\ df' = create_attribute_table(insights)
             /\ recent_insights' = r.rows
             /\ log' = Append(log, e)
             /\ pc' = AfterTryPost(e, "done")
    /\ FetchLeft
    /\ UNCHANGED <<insights, idx, cycles, callVars>>

\* Lines 165-179, when some row is recent: the summary post.
PostSummary ==
    /\ pc = "fetch"
    /\ fstate = "returned"
    /\ ~ NoInsights(insights)
    /\ \E now \in Nows, o \in PostOutcomes :
         LET r == get_recent_data(create_attribute_table(insights), "timestamp", last_day(now))
             e == Post("summary", Len(r.rows), o)
         IN  /\ r.ok
             /\ r.rows # <<>>
             /\ df' = create_attribute_table(insights)
             /\ recent_insights' = r.rows
             /\ log' = Append(log, e)
             /\ pc' = AfterTryPost(e, "posting")
             /\ idx' = 1
    /\ FetchLeft
    /\ UNCHANGED <<insights, cycles, callVars>>

\* Lines 183-184, when format_insight_message raises.
FormatRaises ==
    /\ pc = "posting"
    /\ idx <= Len(recent_insights)
    /\ ~ format_insight_message(recent_insights[idx]).ok
    /\ pc' = "except"
    /\ UNCHANGED <<fetchVars, insights, df, recent_insights, idx, log, cycles, callVars>>

\* Lines 190-192: a post that returned False is printed; the loop goes on.
AbortOnFailure(success) == IF success THEN "posting" ELSE "except"
AfterPost(success) == "posting"

\* Lines 182-192: one iteration of the per-record loop.
PostInsight ==
    /\ pc = "posting"
    /\ idx <= Len(recent_insights)
    /\ format_insight_message(recent_insights[idx]).ok
    /\ \E o \in PostOutcomes :
         LET e == Post("insight", recent_insights[idx].internalInsightId, o)
         IN  IF e.raised
               THEN /\ log' = Append(log, e)
                    /\ pc' = "except"
                    /\ UNCHANGED idx
               ELSE /\ log' = log \o <<e, Sleep(PostDelay)>>
                    /\ pc' = AfterPost(e.value)
                    /\ idx' = idx + 1
    /\ UNCHANGED <<fetchVars, insights, df, recent_insights, cycles, callVars>>

\* The per-record loop is exhausted: the cycle returns.
LoopDone ==
    /\ pc = "posting"
    /\ idx > Len(recent_insights)
    /\ pc' = "done"
    /\ UNCHANGED <<fetchVars, insights, df, recent_insights, idx, log, cycles, callVars>>

\* Lines 194-197: the diagnostic post; an exception it raised leaves the cycle.
HandleException ==
    /\ pc = "except"
    /\ \E o \in PostOutcomes :
         LET e == Post("diagnostic", 0, o)
         IN  /\ log' = Append(log, e)
             /\ pc' = IF e.raised THEN "escaped" ELSE "done"
    /\ UNCHANGED <<fetchVars, insights, df, recent_insights, idx, cycles, callVars>>

----------------------------------------------------------------------------
(* run_daily_bot *)

\* Lines 229-234: the full interval after a cycle that returned, the retry
\* delay after one that raised.
SleepSeconds(p) ==
    IF p = "escaped" THEN RetrySeconds ELSE interval_hours * SecondsPerHour

SkipSleepAfterFailure ==
    /\ pc \in {"done", "escaped"}
    /\ IF \E i \in 1..Len(log) : log[i].kind = "diagnostic"
         THEN UNCHANGED log
         ELSE log' = Append(log, Sleep(SleepSeconds(pc)))
    /\ pc' = "loop_top"
    /\ UNCHANGED <<fetchVars, insights, df, recent_insights, idx, cycles, callVars>>

SleepAfterCycle ==
    /\ pc \in {"done", "escaped"}
    /\ log' = Append(log, Sleep(SleepSeconds(pc)))
    /\ pc' = "loop_top"
    /\ UNCHANGED <<fetchVars, insights, df, recent_insights, idx, cycles, callVars>>

----------------------------------------------------------------------------
(* Specifications *)

InitFetch ==
    /\ all_data = <<>>
    /\ page_token = 0
    /\ requests = <<>>
    /\ served = <<>>
    /\ fstate = "loop"
    /\ pc = "fetch"
    /\ insights = <<>>
    /\ df = NoTable
    /\ recent_insights = <<>>
    /\ idx = 0
    /\ log = <<>>
    /\ cycles = 1
    /\ call = NoCall
    /\ ret = NoRet

FetchOnly == FetchPage(PlainBodies, MaxPages * MaxPageLen, MaxPages)

SpecFetch == InitFetch /\ [][FetchOnly]_vars

Init ==
    /\ all_data = <<>>
    /\ page_token = 0
    /\ requests = <<>>
    /\ served = <<>>
    /\ fstate = "idle"
    /\ pc = "loop_top"
    /\ insights = <<>>
    /\ df = NoTable
    /\ recent_insights = <<>>
    /\ idx = 0
    /\ log = <<>>
    /\ cycles = 0
    /\ call = NoCall
    /\ ret = NoRet

Next ==
    \/ CycleStart
    \/ CycleFetchPage
    \/ FetchRaises
    \/ EmptyFetch
    \/ FilterRaises
    \/ NoRecent
    \/ PostSummary
    \/ FormatRaises
    \/ PostInsight
    \/ LoopDone
    \/ HandleException
    \/ SleepAfterCycle

Spec == Init /\ [][Next]_vars

----------------------------------------------------------------------------
(* get_recent_data on its own: every table of up to MaxTableRows records and
   every cutoff *)

FilterBodies == {Body(ts, Str(<<1>>)) : ts \in TsValues}

Cutoffs == {Aware(t) : t \in 0..MaxTime} \cup {Naive(t) : t \in 0..MaxTime} \cup {BadTs}

InitFilter ==
    /\ all_data = <<>>
    /\ page_token = 0
    /\ requests = <<>>
    /\ served = <<>>
    /\ fstate = "idle"
    /\ pc = "call"
    /\ insights = <<>>
    /\ df = NoTable
    /\ recent_insights = <<>>
    /\ idx = 0
    /\ log = <<>>
    /\ cycles = 0
    /\ \E data \in SeqsUpTo(FilterBodies, MaxTableRows), c \in Cutoffs :
         /\ data # <<>>
         /\ call = [f |-> "get_recent_data",
                    df |-> create_attribute_table(Numbered(data, 0)),
                    last_updated_at |-> c]
    /\ ret = NoRet

CallFilter ==
    /\ pc = "call"
    /\ call.f = "get_recent_data"
    /\ ret' = get_recent_data(call.df, "timestamp", call.last_updated_at)
    /\ pc' = "called"
    /\ UNCHANGED <<fetchVars, insights, df, recent_insights, idx, log, cycles, call>>

SpecFilter == InitFilter /\ [][CallFilter]_vars

----------------------------------------------------------------------------
(* format_insight_message on its own: every title of up to MaxTitleLen
   characters *)

\* A text of n characters that differ along the text.
Text(n, a) == [i \in 1..n |-> 97 + ((i * a) % 26)]

TitleInputs ==
    {Str(Text(n, a)) : n \in 0..MaxTitleLen, a \in 1..NumAlphabets} \cup {NoText, NanText}

InitFormat ==
    /\ all_data = <<>>
    /\ page_token = 0
    /\ requests = <<>>
    /\ served = <<>>
    /\ fstate = "idle"
    /\ pc = "call"
    /\ insights = <<>>
    /\ df = NoTable
    /\ recent_insights = <<>>
    /\ idx = 0
    /\ log = <<>>
    /\ cycles = 0
    /\ \E title \in TitleInputs :
         call = [f |-> "format_insight_message",
                 insight |-> WithId(Body(Aware(0), title), 1)]
    /\ ret = NoRet

CallFormat ==
    /\ pc = "call"
    /\ call.f = "format_insight_message"
    /\ ret' = format_insight_message(call.insight)
    /\ pc' = "called"
    /\ UNCHANGED <<fetchVars, insights, df, recent_insights, idx, log, cycles, call>>

SpecFormat == InitFormat /\ [][CallFormat]_vars

----------------------------------------------------------------------------
(* Properties *)

PostsOf(l) == SelectSeq(l, LAMBDA e : e.ev = "post")
InsightPosts(l) == SelectSeq(l, LAMBDA e : e.ev = "post" /\ e.kind = "insight")
HasPost(l, kind) == \E i \in 1..Len(l) : l[i].ev = "post" /\ l[i].kind = kind

\* The data entries of a sequence of pages, in page order.
PagesData(pages) ==
    LET F[i \in 0..Len(pages)] ==
            IF i = 0 THEN <<>> ELSE F[i-1] \o pages[i].data
    IN  F[Len(pages)]

\* The pages served so far are successful, and each but the last carries a token.
TokenChain ==
    /\ served # <<>>
    /\ \A i \in 1..Len(served) : served[i].kind = "ok"
    /\ \A i \in 1..(Len(served) - 1) : served[i].next # 0

\* C1: when every page but the last carries a continuation token and the last
\* carries none, get_ontology_object has sent exactly one request per page, the
\* first without pageToken and each later one with the token of the page
\* before; it goes on while the last page served carries a token, and returns
\* on the page that carries none, with all the pages' data in page order.
C1_PaginationReturnsAllPages ==
    TokenChain =>
        /\ Len(requests) = Len(served)
        /\ requests[1] = 0
        /\ \A i \in 2..Len(requests) : requests[i] = served[i-1].next
        /\ IF Last(served).next = 0
             THEN fstate = "returned" /\ insights = PagesData(served)
             ELSE fstate = "loop"

\* Three pages of two records each were fetched: six records are returned.
C1_ThreePagesOfTwo ==
    /\ fstate = "returned"
    /\ Len(served) = 3
    /\ \A i \in 1..3 : Len(served[i].data) = 2
    /\ Len(insights) = 6
    /\ \A i \in 1..6 : insights[i].internalInsightId = i

\* C8: a page request that fails (a non-success status, or the network) is the
\* last request of the fetch: none follows it and the fetch ends raising, with
\* nothing returned to the caller; the cycle whose fetch raised posts nothing
\* but its diagnostic.
C8_FirstFailureAborts ==
    /\ \A i \in 1..Len(served) :
         served[i].kind # "ok" =>
            /\ i = Len(served)
            /\ Len(requests) = Len(served)
            /\ fstate = "raised"
    /\ fstate = "raised" =>
         /\ insights = <<>>
         /\ pc # "posting"
         /\ \A j \in 1..Len(log) : log[j].ev = "post" => log[j].kind = "diagnostic"

\* The second page of a fetch failed after a first page with records: the
\* records are not returned.
C8_SecondPageFailed ==
    /\ Len(served) = 2
    /\ served[1].kind = "ok"
    /\ served[2].kind = "http_error"
    /\ all_data # <<>>
    /\ insights = <<>>
    /\ fstate = "raised"

----------------------------------------------------------------------------
(* get_recent_data *)

IsTime(v) == v.k \in {"aware", "naive"}

\* out holds exactly the rows at or after the cutoff, in the table's order.
ExactlyRecent(rows, cutoff, out) ==
    /\ \A i \in 1..Len(out) :
         \E j \in 1..Len(rows) :
            /\ rows[j] = out[i]
            /\ IsTime(rows[j].timestamp)
            /\ ~ (rows[j].timestamp.t < cutoff.t)
    /\ \A j \in 1..Len(rows) :
         (IsTime(rows[j].timestamp) /\ rows[j].timestamp.t >= cutoff.t)
            => \E i \in 1..Len(out) : out[i] = rows[j]
    /\ \A i, k \in 1..Len(out) :
         i < k => out[i].internalInsightId < out[k].internalInsightId

FilterApplies ==
    /\ pc = "called"
    /\ call.f = "get_recent_data"
    /\ "timestamp" \in call.df.cols
    /\ ColumnParses(call.df, "timestamp")
    /\ Parses(call.last_updated_at)

SameAwareness ==
    (\E i \in 1..Len(call.df.rows) : call.df.rows[i].timestamp.k = "aware")
        <=> (call.last_updated_at.k = "aware")

\* C2: for every table whose timestamp column exists and parses and every
\* cutoff that parses, get_recent_data returns exactly the rows at or after the
\* cutoff, in their order: none before the cutoff, every one at the cutoff.
C2_ExactlyRecentRows ==
    FilterApplies =>
        ret.ok /\ ExactlyRecent(call.df.rows, call.last_updated_at, ret.rows)

\* What get_recent_data does: the rows at or after the cutoff are returned when
\* the column and the cutoff agree in carrying the UTC designator; when they
\* disagree the filter fails and returns no row.
InclusiveWhenComparable ==
    FilterApplies =>
        IF SameAwareness
          THEN ret.ok /\ ExactlyRecent(call.df.rows, call.last_updated_at, ret.rows)
          ELSE ~ ret.ok /\ ret.rows = <<>>

\* A row at the cutoff was kept and a row before it was dropped.
BoundaryKept ==
    /\ FilterApplies
    /\ ret.ok
    /\ \E j \in 1..Len(call.df.rows) :
         /\ call.df.rows[j].timestamp.k = "aware"
         /\ call.df.rows[j].timestamp.t = call.last_updated_at.t
         /\ \E i \in 1..Len(ret.rows) : ret.rows[i] = call.df.rows[j]
    /\ \E j \in 1..Len(call.df.rows) :
         /\ call.df.rows[j].timestamp.k = "aware"
         /\ call.df.rows[j].timestamp.t < call.last_updated_at.t
         /\ \A i \in 1..Len(ret.rows) : ret.rows[i] # call.df.rows[j]

----------------------------------------------------------------------------
(* format_insight_message *)

FormatApplies ==
    /\ pc = "called"
    /\ call.f = "format_insight_message"
    /\ call.insight.deIdentifiedInsightSummary.k = "str"

\* C9: a title of more than 150 characters is rendered as a header of exactly
\* 150 characters, the title's first 147 followed by three dots; a title of
\* 150 characters or fewer is rendered unchanged.
C9_HeaderTruncation ==
    FormatApplies =>
        LET title == call.insight.deIdentifiedInsightSummary.s
            header == ret.rows[1].text
        IN  /\ ret.ok
            /\ ret.rows[1].type = "header"
            /\ IF Len(title) > 150
                 THEN /\ Len(header) = 150
                      /\ \A i \in 1..147 : header[i] = title[i]
                      /\ \A i \in 148..150 : header[i] = 46
                 ELSE header = title

\* A title of 151 characters was rendered as a header of 150.
C9_LongTitleRendered ==
    /\ FormatApplies
    /\ Len(call.insight.deIdentifiedInsightSummary.s) = 151
    /\ Len(ret.rows[1].text) = 150

----------------------------------------------------------------------------
(* The cycle *)

EmptyFetchResult == fstate = "returned" /\ insights = <<>>

\* C3: in a cycle whose fetch returned no record, nothing is posted before the
\* "no new insights" message, and the cycle ends with that one post alone: no
\* per-record, summary or diagnostic post.
C3_EmptyFetchPostsOnce ==
    EmptyFetchResult =>
        \/ pc = "fetch" /\ log = <<>>
        \/ /\ pc \in {"done", "loop_top"}
           /\ Len(PostsOf(log)) = 1
           /\ PostsOf(log)[1].kind = "none"

\* A cycle whose fetch returned no record has ended.
C3_EmptyCycleDone ==
    /\ EmptyFetchResult
    /\ pc = "done"
    /\ Len(log) = 1
    /\ log[1].ev = "post"
    /\ log[1].kind = "none"

AllFormat(rows) == \A i \in 1..Len(rows) : format_insight_message(rows[i]).ok

IdsOf(rows) == [i \in 1..Len(rows) |-> rows[i].internalInsightId]
PostIds(l) == [i \in 1..Len(InsightPosts(l)) |-> InsightPosts(l)[i].id]

\* C4: a per-record post answers false exactly when the channel API did not
\* answer ok; whatever the posts answer, in the per-record loop the rows before
\* the loop's position have each been posted once, in table order, and a cycle
\* whose rows all render ends with one post attempt for each recent row, in
\* table order, and without a diagnostic post.
C4_FailedPostIsSkipped ==
    /\ \A i \in 1..Len(log) :
         (log[i].ev = "post" /\ log[i].kind = "insight")
            => (log[i].value <=> log[i].outcome = "ok")
    /\ pc = "posting" =>
         /\ idx >= 1
         /\ PostIds(log) = IdsOf(SubSeq(recent_insights, 1, idx - 1))
         /\ ~ HasPost(log, "diagnostic")
    /\ (pc \in {"done", "loop_top"} /\ recent_insights # <<>> /\ AllFormat(recent_insights)) =>
         /\ PostIds(log) = IdsOf(recent_insights)
         /\ ~ HasPost(log, "diagnostic")

\* A cycle with two recent rows ended: the post of the first row was answered
\* ok=false, the post of the second succeeded.
C4_FailureThenSuccess ==
    /\ pc = "done"
    /\ Len(recent_insights) = 2
    /\ Len(InsightPosts(log)) = 2
    /\ InsightPosts(log)[1].outcome = "not_ok"
    /\ ~ InsightPosts(log)[1].value
    /\ InsightPosts(log)[2].value
    /\ ~ HasPost(log, "diagnostic")

\* C5 as stated: a post whose network call cannot complete raises, and a post
\* answered ok=false returns false without raising.
C5_AsStated ==
    \A i \in 1..Len(log) :
        log[i].ev = "post" =>
            /\ log[i].outcome = "net_error" => log[i].raised
            /\ log[i].outcome = "not_ok" => (~ log[i].raised /\ ~ log[i].value)

\* C5 as amended: no post raises; a post returns true when the channel API
\* answered ok and false otherwise, a network call that cannot complete
\* included; so no exception of a post leaves the cycle.
C5_PostNeverRaises ==
    /\ \A i \in 1..Len(log) :
         log[i].ev = "post" =>
            /\ ~ log[i].raised
            /\ log[i].value <=> (log[i].outcome = "ok")
    /\ pc # "escaped"

\* A per-record post whose network call could not complete returned false, and
\* the loop went on.
C5_TransportFailureReturnedFalse ==
    /\ pc = "posting"
    /\ \E i \in 1..Len(log) :
         /\ log[i].ev = "post"
         /\ log[i].kind = "insight"
         /\ log[i].outcome = "net_error"
         /\ ~ log[i].raised
         /\ ~ log[i].value

\* C6: after a cycle that met an exception (it posted the diagnostic), the poll
\* loop has waited the retry delay of 300 seconds, not the full interval.
C6_FailedCycleWaitsRetryDelay ==
    (pc = "loop_top" /\ HasPost(log, "diagnostic")) =>
        /\ Last(log).ev = "sleep"
        /\ Last(log).secs = 300

\* C7: no two posts of a cycle follow each other without a sleep of at least
\* one second between them.
C7_DelayBetweenPosts ==
    \A i \in 1..(Len(log) - 1) :
        (log[i].ev = "post" /\ log[i+1].ev = "post") => FALSE

\* C10: a cycle starts only at the top of the poll loop, when no cycle is under
\* way, and every cycle but the first starts right after a sleep of the poll
\* loop (the interval or the retry delay), whatever the end of the cycle before.
C10_SleepBetweenCycles ==
    [][cycles' = cycles + 1 =>
        /\ pc = "loop_top"
        /\ cycles = 0 \/ /\ log # <<>>
                         /\ Last(log).ev = "sleep"
                         /\ Last(log).secs \in {300, 86400}]_vars

\* A second cycle is under way, its fetch done.
C10_SecondCycleRunning ==
    /\ cycles = 2
    /\ pc = "fetch"
    /\ fstate = "returned"

----------------------------------------------------------------------------
(* An unparseable timestamp in the cycle *)

HasBadRow(rows) == \E i \in 1..Len(rows) : rows[i].timestamp.k = "bad"

\* C12: when a record of the fetched table has a timestamp that does not parse,
\* get_recent_data fails as a whole: no row is kept, the parseable ones
\* included, and the cycle posts no summary, no per-record message and no
\* "no new insights" message; it ends with the diagnostic post alone.
C12_BadTimestampAbortsFilter ==
    (fstate = "returned" /\ HasBadRow(insights)) =>
        /\ recent_insights = <<>>
        /\ pc \in {"fetch", "except", "done", "loop_top"}
        /\ \A i \in 1..Len(log) : log[i].ev = "post" => log[i].kind = "diagnostic"
        /\ pc = "fetch" => log = <<>>
        /\ pc \in {"done", "loop_top"} => Len(PostsOf(log)) = 1

\* A cycle ended whose fetch returned a record with an unparseable timestamp and
\* a record recent at every cutoff: only the diagnostic was posted.
C12_BadRowBesideRecentRow ==
    /\ pc = "done"
    /\ fstate = "returned"
    /\ HasBadRow(insights)
    /\ \E i \in 1..Len(insights) : insights[i].timestamp = Aware(MaxTime)
    /\ HasPost(log, "diagnostic")

----------------------------------------------------------------------------
(* flatten_json and the column renaming of create_attribute_table, on nested
   records.  A mapping is the sequence of its <<key, value>> entries in
   insertion order; a key is the sequence of the segments its text has between
   separators ("x_id" is <<"x", "id">>); a value is [t, v] with t "num" (a
   scalar), "list", "dict" or "json" (the JSON text of a list). *)

Num(n) == [t |-> "num", v |-> n]
List(l) == [t |-> "list", v |-> l]
Dict(d) == [t |-> "dict", v |-> d]

\* json.dumps of a list: its text, no longer the list.
json_dumps(value) == [t |-> "json", v |-> value.v]

KeyAt(items, k) == {i \in 1..Len(items) : items[i][1] = k}

\* items[k] = v of a dict: a new key is added at the end, a key the dict has
\* keeps its place and takes the new value.
DictSetKeepFirst(items, k, v) ==
    IF KeyAt(items, k) = {} THEN Append(items, <<k, v>>) ELSE items
DictSet(items, k, v) ==
    IF KeyAt(items, k) = {} THEN Append(items, <<k, v>>)
    ELSE [i \in 1..Len(items) |-> IF items[i][1] = k THEN <<k, v>> ELSE items[i]]

\* items.update(other).
DictUpdate(items, other) ==
    LET F[i \in 0..Len(other)] ==
            IF i = 0 THEN items ELSE DictSet(F[i-1], other[i][1], other[i][2])
    IN  F[Len(other)]

\* Lines 257-270.  parent_key and the keys of the result are sequences of
\* segments, joined by the separator in the source.
RECURSIVE flatten_json(_, _)
flatten_json(nested_json, parent_key) ==
    LET F[i \in 0..Len(nested_json)] ==
            IF i = 0 THEN <<>>
            ELSE LET key == nested_json[i][1]
                     value == nested_json[i][2]
                     clean_key == Last(key)
                     new_key == parent_key \o <<clean_key>>
                 IN  IF value.t = "dict"
                       THEN DictUpdate(F[i-1], flatten_json(value.v, new_key))
                       ELSE IF value.t = "list"
                         THEN DictSet(F[i-1], new_key, json_dumps(value))
                         ELSE DictSet(F[i-1], new_key, value)
    IN  F[Len(nested_json)]

\* Lines 287-293 for one record: pd.DataFrame gives one column per key of the
\* flattened record, in the record's order; the renaming keeps of each column
\* name its last segment, and does not merge columns whose names become equal.
RenamedTable(record) ==
    LET flat == flatten_json(record, <<>>)
    IN  [columns |-> [i \in 1..Len(flat) |-> Last(flat[i][1])],
         row |-> [i \in 1..Len(flat) |-> flat[i][2]],
         ok |-> TRUE, rows |-> <<>>, text |-> <<>>]

\* df[name]: the cells of every column of that name, in column order.
Lookup(table, name) ==
    LET F[i \in 0..Len(table.columns)] ==
            IF i = 0 THEN <<>>
            ELSE IF table.columns[i] = name THEN Append(F[i-1], table.row[i])
            ELSE F[i-1]
    IN  F[Len(table.columns)]

\* slack_bot line 183, insight.to_dict()[name]: of the cells of that name the
\* last one.
ToDictGet(table, name) == Last(Lookup(table, name))

LeafKeys == {<<"id">>, <<"x", "id">>}
ParentKeys == {<<"a">>, <<"b">>}

Leaves == {Num(n) : n \in 1..NumVals} \cup {List(<<1>>)}

\* The mappings of at most n entries with distinct keys, the value of key k
\* drawn from ValuesOf[k].
RECURSIVE Mappings(_, _, _)
Mappings(keys, n, ValuesOf) ==
    IF n = 0 THEN {<<>>}
    ELSE LET shorter == Mappings(keys, n - 1, ValuesOf)
         IN  shorter \cup
             UNION {UNION {{Append(m, <<k, v>>) : v \in ValuesOf[k]} :
                           k \in {x \in keys : KeyAt(m, x) = {}}} :
                    m \in {x \in shorter : Len(x) = n - 1}}

InnerLeaves == [k \in LeafKeys |-> Leaves]
InnerMappings == Mappings(LeafKeys, Cardinality(LeafKeys), InnerLeaves)

TopValues ==
    [k \in LeafKeys \cup ParentKeys |->
        IF k \in LeafKeys THEN Leaves ELSE {Dict(d) : d \in InnerMappings}]

NestedRecords(n) == Mappings(LeafKeys \cup ParentKeys, n, TopValues)

InitFlatten ==
    /\ all_data = <<>>
    /\ page_token = 0
    /\ requests = <<>>
    /\ served = <<>>
    /\ fstate = "idle"
    /\ pc = "call"
    /\ insights = <<>>
    /\ df = NoTable
    /\ recent_insights = <<>>
    /\ idx = 0
    /\ log = <<>>
    /\ cycles = 0
    /\ \E record \in NestedRecords(MaxTop) :
         call = [f |-> "create_attribute_table", record |-> record]
    /\ ret = NoRet

CallFlatten ==
    /\ pc = "call"
    /\ call.f = "create_attribute_table"
    /\ ret' = RenamedTable(call.record)
    /\ pc' = "called"
    /\ UNCHANGED <<fetchVars, insights, df, recent_insights, idx, log, cycles, call>>

SpecFlatten == InitFlatten /\ [][CallFlatten]_vars

----------------------------------------------------------------------------
(* Flattening and lookup by last segment *)

\* The terminal entries of a nested record in the order the traversal meets
\* them, each with its path of cleaned segments and its value.
RECURSIVE Terminals(_, _)
Terminals(nested, parent) ==
    LET F[i \in 0..Len(nested)] ==
            IF i = 0 THEN <<>>
            ELSE LET path == parent \o <<Last(nested[i][1])>>
                 IN  IF nested[i][2].t = "dict"
                       THEN F[i-1] \o Terminals(nested[i][2].v, path)
                       ELSE Append(F[i-1], <<path, nested[i][2]>>)
    IN  F[Len(nested)]

\* A terminal value as a cell shows it: a list as its JSON text.
Rendered(value) == IF value.t = "list" THEN [t |-> "json", v |-> value.v] ELSE value

FlattenApplies == pc = "called" /\ call.f = "create_attribute_table"

SameSegment(ts, i) == {j \in 1..Len(ts) : Last(ts[j][1]) = Last(ts[i][1])}
SamePath(ts, i) == {j \in 1..Len(ts) : ts[j][1] = ts[i][1]}
Max(S) == CHOOSE m \in S : \A n \in S : n <= m

\* The cells expected under one name: one for each distinct path that ends in
\* the name, in the order the paths first occur, each holding the value of
\* the last terminal of its path.
CellsOf(ts, name) ==
    LET F[i \in 0..Len(ts)] ==
            IF i = 0 THEN <<>>
            ELSE IF Last(ts[i][1]) = name /\ \A j \in SamePath(ts, i) : i <= j
                   THEN Append(F[i-1], Rendered(ts[Max(SamePath(ts, i))][2]))
                   ELSE F[i-1]
    IN  F[Len(ts)]

\* C11 as the claim states it: looking up the last segment of a terminal key
\* returns one value, the terminal's own, or the value of the later terminal
\* when several terminals share that last segment.
C11_LaterOverwritesInColumns ==
    FlattenApplies =>
        LET ts == Terminals(call.record, <<>>)
        IN  \A i \in 1..Len(ts) :
              Lookup(ret, Last(ts[i][1])) = <<Rendered(ts[Max(SameSegment(ts, i))][2])>>

\* C11: looking up the last segment of a terminal key returns the terminal's
\* value (a list as its JSON text) when no other terminal has that last
\* segment; terminals with the same whole path of cleaned segments are one
\* column holding the later value; terminals with the same last segment and
\* different paths stay separate columns of the same name, which the lookup
\* returns all, and of which the row dictionary takes the last column.
C11_LookupByLastSegment ==
    FlattenApplies =>
        LET ts == Terminals(call.record, <<>>)
        IN  \A i \in 1..Len(ts) :
              LET name == Last(ts[i][1])
              IN  /\ Lookup(ret, name) = CellsOf(ts, name)
                  /\ SameSegment(ts, i) = {i} =>
                        Lookup(ret, name) = <<Rendered(ts[i][2])>>
                  /\ SameSegment(ts, i) = SamePath(ts, i) =>
                        Lookup(ret, name) = <<Rendered(ts[Max(SamePath(ts, i))][2])>>
                  /\ ToDictGet(ret, name) = Last(CellsOf(ts, name))

\* A record with a number under "id" at the top level and a list under "id"
\* inside "a" has been flattened: the table has two columns named "id".
C11_TwoColumnsOfOneName ==
    /\ FlattenApplies
    /\ call.record = << <<(<<"id">>), Num(1)>>,
                        <<(<<"a">>), Dict(<< <<(<<"id">>), List(<<1>>)>> >>)>> >>
    /\ Lookup(ret, "id") = <<Num(1), json_dumps(List(<<1>>))>>

====
